---- MODULE Spec2Model ----
(***************************************************************************)
(* A model of src/src/App.tsx: the upload flow of App (file selection,     *)
(* handleUpload with its two timers, navigation) and the figures the       *)
(* dashboard pages render.                                                  *)
(*                                                                          *)
(* Time is discrete.  One tick is TickMs milliseconds; a timer is a record *)
(* with the number of ticks left before it expires.  Expired timers run in *)
(* the order a browser runs them: by expiry instant, then by registration. *)
(***************************************************************************)
EXTENDS Integers, Sequences, FiniteSets

VARIABLES uploadState, currentPage, activeTab, timers, nRuns, failed

\* The analytics pipeline behind the dashboard: the Event Store and its
\* configuration, the results of the Metrics Engine (metrics, cohorts), the
\* churn labels, the components that have run, the clustering, the anomaly
\* scan.
VARIABLES store, config, metrics, cohorts, labels, done, km, ad

backend == <<store, config, metrics, cohorts, labels, done, km, ad>>

\* The filters of the sidebar (state of App).
VARIABLES dateRange, deviceFilter, segmentFilter

filters == <<dateRange, deviceFilter, segmentFilter>>

\* The state of ChatbotPage while it is mounted, the reply timers it has set
\* and the number of messages sent so far.
VARIABLES messages, inputMessage, isTyping, replies, nSent

chat == <<messages, inputMessage, isTyping, replies, nSent>>

vars == <<uploadState, currentPage, activeTab, timers, nRuns, failed, filters,
          chat, backend>>

(***************************************************************************)
(* Bounds and program constants                                            *)
(***************************************************************************)
\* Greatest number of handleUpload runs one behaviour starts.
MaxRuns == 2

\* setTimeout(resolve, 2000) in handleUpload.
WaitMs == 2000
\* setTimeout(() => setCurrentPage('overview'), 1500) in handleUpload.
NavMs == 1500
\* The grain of time: small enough for a click to fall strictly between the
\* expiry of one run's navigation timer and of a later run's wait.
TickMs == (WaitMs - NavMs) \div 2
WaitTicks == WaitMs \div TickMs
NavTicks == NavMs \div TickMs

Null == "null"
Unmounted == "unmounted"

(***************************************************************************)
(* Files the user can choose or drop.  A file has the two attributes the   *)
(* code reads (name, type) and its content, which the code never reads.    *)
(***************************************************************************)
LowerOf ==
  [c \in {"a", "b", "c", "d", "e", "f", "l", "m", "p", "s", "t", "v", "x",
          ".", "C", "L", "S", "V", "X"} |->
     CASE c = "C" -> "c"
       [] c = "L" -> "l"
       [] c = "S" -> "s"
       [] c = "V" -> "v"
       [] c = "X" -> "x"
       [] OTHER -> c]

\* The effect of the regular expression's i flag on a name.
ToLower(name) == [i \in 1..Len(name) |-> LowerOf[name[i]]]

EndsWith(name, suffix) ==
  /\ Len(name) >= Len(suffix)
  /\ SubSeq(name, Len(name) - Len(suffix) + 1, Len(name)) = suffix

Extensions == {<<"x", "l", "s", "x">>, <<"x", "l", "s">>, <<"c", "s", "v">>}

\* file.name.match(/\.(xlsx|xls|csv)$/i)
NameMatches(name) ==
  \E ext \in Extensions : EndsWith(ToLower(name), <<".">> \o ext)

validTypes ==
  {"application/vnd.openxmlformats-officedocument.spreadsheetml.sheet",
   "application/vnd.ms-excel",
   "text/csv"}

\* The negation of the rejection test of handleFileSelect; IsValidFileAnd is
\* the test with its two halves joined the other way.
IsValidFileAnd(file) == file.type \in validTypes /\ NameMatches(file.name)
IsValidFile(file) == file.type \in validTypes \/ NameMatches(file.name)

FileTypeError == "Please upload an Excel (.xlsx, .xls) or CSV file"
UploadError == "Upload failed. Please try again."

\* One row of an uploaded dataset.
Ev(u, n, r) == [user_id |-> u, event_name |-> n, revenue |-> r]

EmptyData == <<>>
FreeData ==
  <<Ev("u1", "install", 0), Ev("u1", "tutorial_complete", 0),
    Ev("u2", "install", 0)>>
SkipData ==
  <<Ev("u1", "install", 0), Ev("u1", "purchase", 5),
    Ev("u2", "install", 0), Ev("u2", "tutorial_complete", 0),
    Ev("u2", "purchase", 3)>>

\* Three users who all log in on day 1; u1 makes 10 purchases of $50.
ScenarioData ==
  <<[user_id |-> "u1", event_name |-> "login", revenue |-> 0, day |-> 1],
    [user_id |-> "u2", event_name |-> "login", revenue |-> 0, day |-> 1],
    [user_id |-> "u3", event_name |-> "login", revenue |-> 0, day |-> 1]>>
  \o [i \in 1..10 |->
        [user_id |-> "u1", event_name |-> "purchase", revenue |-> 50, day |-> 1]]

\* Five rows, three of them with a timestamp no format parses.
BadData ==
  <<[user_id |-> "u1", event_name |-> "login", revenue |-> 0,
     timestamp |-> "2024-12-01T10:00:00Z"],
    [user_id |-> "u1", event_name |-> "login", revenue |-> 0,
     timestamp |-> "yesterday"],
    [user_id |-> "u2", event_name |-> "login", revenue |-> 0,
     timestamp |-> "??"],
    [user_id |-> "u2", event_name |-> "purchase", revenue |-> 5,
     timestamp |-> "2024-12-02T09:30:00Z"],
    [user_id |-> "u2", event_name |-> "login", revenue |-> 0,
     timestamp |-> ""]>>

MkFile(name, type, data) == [name |-> name, type |-> type, data |-> data]

Files ==
  {MkFile(<<"a", ".", "c", "s", "v">>, "text/csv", EmptyData),
   MkFile(<<"b", ".", "X", "L", "S", "X">>, "", FreeData),
   MkFile(<<"c", ".", "x", "l", "s">>, "application/vnd.ms-excel", SkipData),
   MkFile(<<"d", ".", "p", "d", "f">>, "application/pdf", FreeData),
   MkFile(<<"e", ".", "p", "d", "f">>, "text/csv", FreeData),
   MkFile(<<"c", "s", "v">>, "", SkipData),
   MkFile(<<"a", ".", "c", "s", "v", ".", "t", "x", "t">>, "text/plain", FreeData),
   MkFile(<<"f", ".", "x", "l", "s", "m">>, "", SkipData),
   MkFile(<<"s", ".", "c", "s", "v">>, "text/csv", ScenarioData),
   MkFile(<<"t", ".", "c", "s", "v">>, "text/csv", BadData)}

\* event.target.files?.[0] and uploadState.file: <<>> is no file, <<f>> is f.
NoFile == <<>>
Chosen == {NoFile} \cup {<<f>> : f \in Files}

(***************************************************************************)
(* What the dashboard pages render                                         *)
(***************************************************************************)
\* The KPI cards of OverviewPage.
kpiCards ==
  <<[title |-> "Daily Active Users", value |-> "12,847", change |-> "+5.2%"],
    [title |-> "Total Revenue", value |-> "$45,231", change |-> "+12.8%"],
    [title |-> "ARPPU", value |-> "$23.45", change |-> "+3.1%"],
    [title |-> "Retention Rate", value |-> "68.2%", change |-> "-2.1%"]>>

\* The funnel of AnalyticsPage; funnelStepsSwapped has two rows in the other
\* order.
funnelStepsSwapped ==
  <<[step |-> "App Install", users |-> 10000, conversion |-> 1000],
    [step |-> "First Purchase", users |-> 2550, conversion |-> 255],
    [step |-> "Tutorial Complete", users |-> 8500, conversion |-> 850],
    [step |-> "Second Purchase", users |-> 1275, conversion |-> 128]>>
\* conversion is kept in tenths of a percent.
funnelSteps ==
  <<[step |-> "App Install", users |-> 10000, conversion |-> 1000],
    [step |-> "Tutorial Complete", users |-> 8500, conversion |-> 850],
    [step |-> "First Purchase", users |-> 2550, conversion |-> 255],
    [step |-> "Second Purchase", users |-> 1275, conversion |-> 128]>>

\* The rows of the High Churn Risk Users table of MLInsightsPage; risk is the
\* text shown, character by character.  churnRiskUsersMedium has a row that
\* is no high risk.
churnRiskUsersMedium ==
  <<[id |-> "user_001", segment |-> "Whale", lastActive |-> "2 days ago",
     risk |-> <<"8", "9", "%">>],
    [id |-> "user_045", segment |-> "Dolphin", lastActive |-> "5 days ago",
     risk |-> <<"6", "7", "%">>],
    [id |-> "user_123", segment |-> "Minnow", lastActive |-> "1 week ago",
     risk |-> <<"8", "2", "%">>]>>
churnRiskUsers ==
  <<[id |-> "user_001", segment |-> "Whale", lastActive |-> "2 days ago",
     risk |-> <<"8", "9", "%">>],
    [id |-> "user_045", segment |-> "Dolphin", lastActive |-> "5 days ago",
     risk |-> <<"7", "6", "%">>],
    [id |-> "user_123", segment |-> "Minnow", lastActive |-> "1 week ago",
     risk |-> <<"8", "2", "%">>]>>

\* The pages of the navigation buttons of the sidebar.
\* DashboardPagesWithUpload adds a button back to the upload page.
DashboardPagesWithUpload ==
  {"upload", "overview", "analytics", "ml-insights", "chatbot", "reports"}
DashboardPages == {"overview", "analytics", "ml-insights", "chatbot", "reports"}
Tabs == {"retention", "funnels", "cohorts", "devices", "geography"}

\* The cards OverviewPage shows in this state, the funnel AnalyticsPage shows.
ShownKpis == IF currentPage = "overview" THEN kpiCards ELSE <<>>
ShownFunnel ==
  IF currentPage = "analytics" /\ activeTab = "funnels" THEN funnelSteps ELSE <<>>

\* The rows MLInsightsPage shows in this state.
ShownChurnRisk == IF currentPage = "ml-insights" THEN churnRiskUsers ELSE <<>>

\* The first entry of the messages of ChatbotPage.
Greeting == [type |-> "ai", content |-> <<"Hello! I'm your Gaming Analytics AI assistant.">>]

(***************************************************************************)
(* The state machine                                                       *)
(***************************************************************************)
\* No pipeline has run: the source starts none.
BackendIdle ==
  /\ store = <<>>
  /\ config = [activity |-> {}, window |-> <<0, 0>>, cutoff |-> 0]
  /\ metrics = <<>>
  /\ cohorts = {}
  /\ labels = {}
  /\ done = {}
  /\ km = [points |-> <<>>, centroids |-> <<>>, assign |-> <<>>, iter |-> 0,
          status |-> "idle"]
  /\ ad = [series |-> <<>>, pos |-> 0, flagged |-> {}]

\* The dashboard before any upload.
UiInit ==
  /\ uploadState = [file |-> NoFile, uploading |-> FALSE, uploaded |-> FALSE,
                    error |-> Null]
  /\ currentPage = "upload"
  /\ activeTab = Unmounted
  /\ timers = {}
  /\ nRuns = 0
  /\ failed = {}
  /\ dateRange = "30d"
  /\ deviceFilter = "all"
  /\ segmentFilter = "all"
  /\ messages = <<>>
  /\ inputMessage = <<>>
  /\ isTyping = FALSE
  /\ replies = {}
  /\ nSent = 0

ui == <<uploadState, currentPage, activeTab, timers, nRuns, failed, filters,
        chat>>

Init == UiInit /\ BackendIdle

\* The file input and the drop zone are rendered by UploadPage while
\* uploadState.uploaded is false.
UploadAreaShown == currentPage = "upload" /\ ~uploadState.uploaded

\* The body of handleFileSelect for event.target.files = chosen.
FileSelected(chosen) ==
  /\ uploadState' =
       IF chosen = NoFile THEN uploadState
       ELSE IF ~IsValidFile(chosen[1])
         THEN [file |-> NoFile, uploading |-> FALSE, uploaded |-> FALSE,
               error |-> FileTypeError]
         ELSE [file |-> chosen, uploading |-> FALSE, uploaded |-> FALSE,
               error |-> Null]
  /\ UNCHANGED <<currentPage, activeTab, timers, nRuns, failed,
               filters, chat, backend>>

handleFileSelect(chosen) == UploadAreaShown /\ FileSelected(chosen)

\* handleDrop hands files[0] to handleFileSelect when a file was dropped.
handleDrop(chosen) == UploadAreaShown /\ FileSelected(chosen)

\* handleUpload up to its await: the Analyze Data button is enabled.
handleUpload ==
  /\ UploadAreaShown
  /\ uploadState.file # NoFile
  /\ ~uploadState.uploading
  /\ nRuns < MaxRuns
  /\ uploadState' = [uploadState EXCEPT !.uploading = TRUE, !.error = Null]
  /\ nRuns' = nRuns + 1
  /\ timers' = timers \cup {[run |-> nRuns + 1, kind |-> "wait", left |-> WaitTicks]}
  /\ UNCHANGED <<currentPage, activeTab, failed,
               filters, chat, backend>>

\* An expired timer runs once every expired timer of the same delay that was
\* set before it has run; timers of different delays that expire at the same
\* instant run in either order.
MayRun(t) ==
  /\ t \in timers
  /\ t.left = 0
  /\ \A o \in timers : (o.left = 0 /\ o.kind = t.kind) => o.run >= t.run

\* handleUpload after its await, when the promise resolves.
handleUploadResumeNoTimer(t) ==
  /\ MayRun(t)
  /\ t.kind = "wait"
  /\ uploadState' = [uploadState EXCEPT !.uploading = FALSE, !.uploaded = TRUE]
  /\ timers' = timers \ {t}
  /\ UNCHANGED <<currentPage, activeTab, nRuns, failed,
               filters, chat, backend>>
handleUploadResume(t) ==
  /\ MayRun(t)
  /\ t.kind = "wait"
  /\ uploadState' = [uploadState EXCEPT !.uploading = FALSE, !.uploaded = TRUE]
  /\ timers' = (timers \ {t}) \cup {[run |-> t.run, kind |-> "nav", left |-> NavTicks]}
  /\ UNCHANGED <<currentPage, activeTab, nRuns, failed,
               filters, chat, backend>>

\* The catch block of handleUpload: the awaited step throws.
handleUploadCatchUploaded(t) ==
  /\ MayRun(t)
  /\ t.kind = "wait"
  /\ uploadState' = [uploadState EXCEPT !.uploading = FALSE, !.uploaded = TRUE,
                                        !.error = UploadError]
  /\ timers' = timers \ {t}
  /\ failed' = failed \cup {t.run}
  /\ UNCHANGED <<currentPage, activeTab, nRuns,
               filters, chat, backend>>
handleUploadCatch(t) ==
  /\ MayRun(t)
  /\ t.kind = "wait"
  /\ uploadState' = [uploadState EXCEPT !.uploading = FALSE, !.error = UploadError]
  /\ timers' = timers \ {t}
  /\ failed' = failed \cup {t.run}
  /\ UNCHANGED <<currentPage, activeTab, nRuns,
               filters, chat, backend>>

\* The page a click or the navigation timer sets; AnalyticsPage is mounted
\* with activeTab = 'retention' and keeps its tab while it stays mounted.
\* ChatbotPage is mounted with the greeting, an empty input and isTyping
\* false; when it is unmounted its state is gone and the callbacks of its
\* pending reply timers no longer reach a mounted component.
ShowPage(p) ==
  /\ currentPage' = p
  /\ activeTab' = IF p # "analytics" THEN Unmounted
                  ELSE IF currentPage = "analytics" THEN activeTab
                  ELSE "retention"
  /\ IF (p = "chatbot") = (currentPage = "chatbot")
       THEN UNCHANGED <<messages, inputMessage, isTyping, replies>>
       ELSE /\ messages' = IF p = "chatbot" THEN <<Greeting>> ELSE <<>>
            /\ inputMessage' = <<>>
            /\ isTyping' = FALSE
            /\ replies' = {[r EXCEPT !.live = FALSE] : r \in replies}

\* The callback of the second setTimeout of handleUpload.
navTimeout(t) ==
  /\ MayRun(t)
  /\ t.kind = "nav"
  /\ ShowPage("overview")
  /\ timers' = timers \ {t}
  /\ UNCHANGED <<uploadState, nRuns, failed,
               filters, nSent, backend>>

\* A click on a navigation button of the sidebar.
setCurrentPage(p) ==
  /\ currentPage # "upload"
  /\ ShowPage(p)
  /\ UNCHANGED <<uploadState, timers, nRuns, failed,
               filters, nSent, backend>>

\* A click on a tab of AnalyticsPage.
setActiveTab(tab) ==
  /\ currentPage = "analytics"
  /\ activeTab' = tab
  /\ UNCHANGED <<uploadState, currentPage, timers, nRuns, failed,
               filters, chat, backend>>

\* The options of the three selects of the sidebar.
DateRanges == {"7d", "30d", "90d"}
DeviceOptions == {"all", "mobile", "pc"}
SegmentOptions == {"all", "whale", "dolphin", "minnow"}

\* onChange of the Date Range, Device and Segment selects; the sidebar is
\* rendered on every page but the upload page.
setDateRange(v) ==
  /\ currentPage # "upload"
  /\ dateRange' = v
  /\ UNCHANGED <<uploadState, currentPage, activeTab, timers, nRuns, failed,
                 deviceFilter, segmentFilter, chat, backend>>

setDeviceFilter(v) ==
  /\ currentPage # "upload"
  /\ deviceFilter' = v
  /\ UNCHANGED <<uploadState, currentPage, activeTab, timers, nRuns, failed,
                 dateRange, segmentFilter, chat, backend>>

setSegmentFilter(v) ==
  /\ currentPage # "upload"
  /\ segmentFilter' = v
  /\ UNCHANGED <<uploadState, currentPage, activeTab, timers, nRuns, failed,
                 dateRange, deviceFilter, chat, backend>>

\* TickMs pass; no timer is overdue.
Tick ==
  /\ timers # {} \/ replies # {}
  /\ \A t \in timers : t.left > 0
  /\ \A r \in replies : r.left > 0
  /\ timers' = {[t EXCEPT !.left = t.left - 1] : t \in timers}
  /\ replies' = {[r EXCEPT !.left = r.left - 1] : r \in replies}
  /\ UNCHANGED <<uploadState, currentPage, activeTab, nRuns, failed,
               filters, messages, inputMessage, isTyping, nSent, backend>>

TimerFires == \E t \in timers : handleUploadResume(t) \/ navTimeout(t)

Next ==
  \/ \E chosen \in Chosen : handleFileSelect(chosen)
  \/ \E chosen \in Chosen : handleDrop(chosen)
  \/ handleUpload
  \/ \E t \in timers : handleUploadResume(t)
  \/ \E t \in timers : navTimeout(t)
  \/ \E p \in DashboardPages : setCurrentPage(p)
  \/ \E tab \in Tabs : setActiveTab(tab)
  \/ Tick

Spec == Init /\ [][Next]_vars

\* Timers fire and time passes.
SpecLive == Spec /\ WF_vars(Tick) /\ WF_vars(TimerFires)

\* The program with an awaited step that may throw: the promise of line 68
\* never rejects, so the catch block runs only here.
NextFault == Next \/ \E t \in timers : handleUploadCatch(t)

SpecFault == Init /\ [][NextFault]_vars

\* The program with the selects of the sidebar.  No code reads the three
\* filters, so the upload flow above is the same with and without them.
NextFilters ==
  \/ Next
  \/ \E v \in DateRanges : setDateRange(v)
  \/ \E v \in DeviceOptions : setDeviceFilter(v)
  \/ \E v \in SegmentOptions : setSegmentFilter(v)

SpecFilters == Init /\ [][NextFilters]_vars

(***************************************************************************)
(* The dataset of the selected file, read as the Metrics Engine reads it   *)
(***************************************************************************)
\* The rows of the file the dashboard was opened for.
Dataset == IF uploadState.file = NoFile THEN <<>> ELSE uploadState.file[1].data

UsersOf(data) == {data[i].user_id : i \in DOMAIN data}

\* Users with at least one purchase event of revenue > 0.
PayingUsers(data) ==
  {data[i].user_id :
     i \in {j \in DOMAIN data :
              data[j].event_name = "purchase" /\ data[j].revenue > 0}}

EventsOf(data, u) == SelectSeq(data, LAMBDA e : e.user_id = u)

\* The event each step of the displayed funnel stands for.
StepEvents == <<"install", "tutorial_complete", "purchase", "purchase">>

\* How many of the steps, in order, the events satisfy.
RECURSIVE Progress(_, _)
Progress(evs, steps) ==
  IF evs = <<>> \/ steps = <<>> THEN 0
  ELSE IF Head(evs).event_name = Head(steps)
    THEN 1 + Progress(Tail(evs), Tail(steps))
    ELSE Progress(Tail(evs), steps)

\* The users who satisfied steps 1..k in order.
UsersAtStep(data, k) ==
  {u \in UsersOf(data) : Progress(EventsOf(data, u), StepEvents) >= k}

ZeroOrNull == {Null, "0", "$0", "$0.00", "0%", "0.0%"}

(***************************************************************************)
(* Claims                                                                  *)
(***************************************************************************)
\* C1: the ARPPU the overview reports is null exactly when the dataset has no
\* paying user.
C1_ArppuNullIffNoPayers ==
  \A i \in DOMAIN ShownKpis :
    (ShownKpis[i].title = "ARPPU" /\ uploadState.file # NoFile) =>
      (ShownKpis[i].value = Null <=> PayingUsers(Dataset) = {})

\* C2: for an empty dataset every metric shown is null or zero and carries
\* the status unavailable.
C2_EmptyDatasetUnavailable ==
  (uploadState.file # NoFile /\ Dataset = EmptyData) =>
    \A i \in DOMAIN ShownKpis :
      /\ ShownKpis[i].value \in ZeroOrNull
      /\ "status" \in DOMAIN ShownKpis[i]
      /\ ShownKpis[i].status = "unavailable"

\* C3: whenever a dashboard page is shown, uploaded is true and no run of
\* handleUpload is still in its 2 s wait.
C3_DashboardOnlyAfterRun ==
  currentPage # "upload" =>
    /\ uploadState.uploaded
    /\ ~\E t \in timers : t.kind = "wait"

\* The runs of handleUpload with a timer pending.
RunsInFlight == {t.run : t \in timers}

\* C4: at most one run of handleUpload (its wait or its navigation timer) is
\* in flight.
C4_SingleRun == Cardinality(RunsInFlight) <= 1

\* C5: a step in which a run fails leaves uploading false and error set, does
\* not set uploaded, does not change the page, and leaves no timer of that
\* run; no failed run ever has a timer.
C5_FailureIsFatal ==
  [][/\ failed' # failed =>
          /\ ~uploadState'.uploading
          /\ uploadState'.error # Null
          /\ uploadState'.uploaded = uploadState.uploaded
          /\ currentPage' = currentPage
     /\ \A t \in timers' : t.run \notin failed']_vars

C5_Witness ==
  /\ failed # {}
  /\ uploadState.error = UploadError
  /\ ~uploadState.uploaded

\* The part of a name after its last dot, in lower case; <<>> without a dot.
LastExt(name) ==
  LET dots == {i \in 1..Len(name) : name[i] = "."}
  IN IF dots = {} THEN <<>>
     ELSE LET d == CHOOSE i \in dots : \A j \in dots : j <= i
          IN ToLower(SubSeq(name, d + 1, Len(name)))

\* A file of one of the three spreadsheet MIME types, or whose extension is
\* xlsx, xls or csv in any case.
C6_Accepted(f) ==
  \/ f.type = "application/vnd.openxmlformats-officedocument.spreadsheetml.sheet"
  \/ f.type = "application/vnd.ms-excel"
  \/ f.type = "text/csv"
  \/ (f.name # <<>> /\ LastExt(f.name) \in
        {<<"x", "l", "s", "x">>, <<"x", "l", "s">>, <<"c", "s", "v">>})
\* C6: a chosen file whose MIME type is one of the three spreadsheet types or
\* whose extension is xlsx, xls or csv in any case is stored with error null;
\* any other chosen file clears the file and sets the file type message; both
\* leave uploading and uploaded false.
C6_FileSelectAcceptsSpreadsheets ==
  [][\A f \in Files :
       handleFileSelect(<<f>>) =>
         /\ ~uploadState'.uploading
         /\ ~uploadState'.uploaded
         /\ IF C6_Accepted(f)
              THEN uploadState'.file = <<f>> /\ uploadState'.error = Null
              ELSE /\ uploadState'.file = NoFile
                   /\ uploadState'.error =
                        "Please upload an Excel (.xlsx, .xls) or CSV file"]_vars

C6_Witness ==
  /\ uploadState.file = NoFile
  /\ uploadState.error = FileTypeError

\* C7: a run in its wait leads to uploaded; uploaded on the upload page leads
\* to the overview; no dashboard page is shown before uploaded is true.
C7_UploadLeadsToOverview ==
  /\ (\E t \in timers : t.kind = "wait") ~> uploadState.uploaded
  /\ (uploadState.uploaded /\ currentPage = "upload") ~> (currentPage = "overview")
  /\ [](currentPage # "upload" => uploadState.uploaded)

C7_Witness ==
  /\ currentPage = "overview"
  /\ uploadState.uploaded
  /\ timers = {}

\* C8: the user counts of the funnel shown do not increase from one step to
\* the next.
C8_FunnelNonIncreasing ==
  \A i \in 1..(Len(ShownFunnel) - 1) :
    ShownFunnel[i].users >= ShownFunnel[i + 1].users

C8_Witness == Len(ShownFunnel) = 4

\* C9: the funnel shown counts at step k only users of the dataset who
\* satisfied steps 1..k in order.
C9_FunnelCountsOrderedUsers ==
  uploadState.file # NoFile =>
    \A k \in DOMAIN ShownFunnel :
      ShownFunnel[k].users <= Cardinality(UsersAtStep(Dataset, k))

\* C10: a metric whose denominator is zero is reported as null: ARPPU without
\* paying users, the retention rate without users.
C10_ZeroDenominatorNull ==
  uploadState.file # NoFile =>
    \A i \in DOMAIN ShownKpis :
      /\ (ShownKpis[i].title = "ARPPU" /\ PayingUsers(Dataset) = {})
           => ShownKpis[i].value = Null
      /\ (ShownKpis[i].title = "Retention Rate" /\ UsersOf(Dataset) = {})
           => ShownKpis[i].value = Null

(***************************************************************************)
(* The analytics pipeline the README of the source names (data_processor,  *)
(* analytics_engine, ml_models) and the source does not contain.  It is    *)
(* modelled from the design: an Event Store of normalized events, and the  *)
(* components that read it.  Money is in cents.                            *)
(***************************************************************************)
\* Greatest number of events of a store; last day of the calendar.
MaxEvents == 2
MaxDay == 1

EngineUsers == {"u1", "u2"}
Days == 0..MaxDay
EventNames == {"login", "purchase"}
Prices == {0, 500}

\* A normalized event: day is the UTC day of its timestamp; only purchases
\* carry revenue.
EngineEvents ==
  {[user_id |-> u, event_name |-> "login", day |-> d, revenue |-> 0] :
     u \in EngineUsers, d \in Days}
  \cup
  {[user_id |-> u, event_name |-> "purchase", day |-> d, revenue |-> r] :
     u \in EngineUsers, d \in Days, r \in Prices}

\* Event sequences in arrival order; timestamps need not be ordered.
Stores == UNION {[1..n -> EngineEvents] : n \in 0..MaxEvents}

\* The configurable activity set; the date range of the filter.
ActivitySets == (SUBSET EventNames) \ {{}}
Windows == {w \in Days \X Days : w[1] <= w[2]}

\* events_in_range(start, end)
EventsInRange(events, w) ==
  SelectSeq(events, LAMBDA e : w[1] <= e.day /\ e.day <= w[2])

RECURSIVE TotalRevenue(_)
TotalRevenue(events) ==
  IF events = <<>> THEN 0 ELSE Head(events).revenue + TotalRevenue(Tail(events))

\* Distinct user_id with at least one event of a type in the activity set.
RECURSIVE ActiveUsers(_, _)
ActiveUsers(events, activity) ==
  IF events = <<>> THEN {}
  ELSE (IF Head(events).event_name \in activity
          THEN {Head(events).user_id} ELSE {})
       \cup ActiveUsers(Tail(events), activity)

\* A metric value: <<>> is null, <<v>> is the number v.
\* ARPDAU = revenue / active users, 0 without active users.  ArpdauNull
\* reports null there instead.
ArpdauNull(revenue, active) ==
  IF active = 0 THEN <<>> ELSE <<revenue \div active>>
Arpdau(revenue, active) ==
  IF active = 0 THEN <<0>> ELSE <<revenue \div active>>

\* ARPPU = revenue / paying users, null without paying users.
Arppu(revenue, payers) ==
  IF payers = 0 THEN <<>> ELSE <<revenue \div payers>>

\* The Metrics Engine on the store under the filter of config.
computeMetrics ==
  /\ "metrics" \notin done
  /\ LET evs == EventsInRange(store, config.window)
         revenue == TotalRevenue(evs)
         active == Cardinality(ActiveUsers(evs, config.activity))
         payers == Cardinality(PayingUsers(evs))
     IN metrics' = <<[active_users |-> active,
                      revenue |-> revenue,
                      paying_users |-> payers,
                      arpdau |-> Arpdau(revenue, active),
                      arppu |-> Arppu(revenue, payers)]>>
  /\ done' = done \cup {"metrics"}
  /\ UNCHANGED <<ui, store, config, cohorts, labels, km, ad>>

InitMetrics ==
  /\ UiInit
  /\ store \in Stores
  /\ config \in [activity : ActivitySets, window : Windows, cutoff : {0}]
  /\ metrics = <<>>
  /\ cohorts = {}
  /\ labels = {}
  /\ done = {}
  /\ km = [points |-> <<>>, centroids |-> <<>>, assign |-> <<>>, iter |-> 0,
          status |-> "idle"]
  /\ ad = [series |-> <<>>, pos |-> 0, flagged |-> {}]

SpecMetrics == InitMetrics /\ [][computeMetrics]_vars

\* The events of the store inside the window, as positions; their revenue
\* summed position by position; the users active in the window.
WindowPositions ==
  {i \in DOMAIN store :
     config.window[1] <= store[i].day /\ store[i].day <= config.window[2]}
RECURSIVE RevenueAt(_)
RevenueAt(positions) ==
  IF positions = {} THEN 0
  ELSE LET i == CHOOSE j \in positions : TRUE
       IN store[i].revenue + RevenueAt(positions \ {i})
WindowActive ==
  {u \in EngineUsers :
     \E i \in WindowPositions :
       store[i].user_id = u /\ store[i].event_name \in config.activity}

\* C11 as stated: ARPDAU is revenue / active users, 0 and not null without
\* active users, and without active users the revenue of the window is 0.
C11_ArpdauZeroMeansNoRevenue ==
  "metrics" \in done =>
    LET a == Cardinality(WindowActive)
        r == RevenueAt(WindowPositions)
        m == metrics[1]
    IN /\ m.arpdau # <<>>
       /\ a > 0 => (m.arpdau[1] * a <= r /\ r < (m.arpdau[1] + 1) * a)
       /\ a = 0 => (m.arpdau[1] = 0 /\ r = 0)

\* C11 amended: ARPDAU is revenue / active users, 0 and not null without
\* active users; without active users the revenue of the window is 0
\* provided purchase events belong to the activity set.
C11_Arpdau ==
  "metrics" \in done =>
    LET a == Cardinality(WindowActive)
        r == RevenueAt(WindowPositions)
        m == metrics[1]
    IN /\ m.arpdau # <<>>
       /\ a > 0 => (m.arpdau[1] * a <= r /\ r < (m.arpdau[1] + 1) * a)
       /\ a = 0 => m.arpdau[1] = 0
       /\ (a = 0 /\ "purchase" \in config.activity) => r = 0

C11_Witness ==
  /\ "metrics" \in done
  /\ metrics[1].active_users = 0
  /\ metrics[1].arpdau = <<0>>
  /\ Len(store) > 0
  /\ "purchase" \in config.activity

\* C12: for the dataset of three users of whom one made 10 purchases
\* totalling $500, the overview reports ARPPU $500.00 and 3 daily active
\* users.
C12_ScenarioArppuAndDau ==
  (uploadState.file # NoFile /\ Dataset = ScenarioData) =>
    \A i \in DOMAIN ShownKpis :
      /\ ShownKpis[i].title = "ARPPU" => ShownKpis[i].value = "$500.00"
      /\ ShownKpis[i].title = "Daily Active Users" => ShownKpis[i].value = "3"

\* A row whose timestamp none of the accepted formats parses.
Unparsable(row) ==
  /\ "timestamp" \in DOMAIN row
  /\ row.timestamp \notin {"2024-12-01T10:00:00Z", "2024-12-02T09:30:00Z"}

\* More than 50% of the rows have an unparsable timestamp.
MajorityUnparsable(data) ==
  2 * Cardinality({i \in DOMAIN data : Unparsable(data[i])}) > Len(data)

\* C14: processing a file of which more than 50% of the rows have an
\* unparsable timestamp fails: it never ends with Upload Successful.
C14_MajorityUnparsableFails ==
  (uploadState.file # NoFile /\ MajorityUnparsable(Dataset)) =>
    ~uploadState.uploaded

\* The number a percentage text shows: its digits up to the % sign.
DigitOf ==
  [c \in {"0", "1", "2", "3", "4", "5", "6", "7", "8", "9"} |->
     CASE c = "0" -> 0 [] c = "1" -> 1 [] c = "2" -> 2 [] c = "3" -> 3
       [] c = "4" -> 4 [] c = "5" -> 5 [] c = "6" -> 6 [] c = "7" -> 7
       [] c = "8" -> 8 [] OTHER -> 9]
RECURSIVE ParseDigits(_, _)
ParseDigits(text, acc) ==
  IF text = <<>> \/ Head(text) \notin DOMAIN DigitOf THEN acc
  ELSE ParseDigits(Tail(text), 10 * acc + DigitOf[Head(text)])
ParsePercent(text) == ParseDigits(text, 0)

\* The risk tiers of the design's default thresholds, in percent.
LowBelow == 30
HighAbove == 70
InTier(pct, tier) ==
  CASE tier = "low" -> pct < LowBelow
    [] tier = "medium" -> LowBelow <= pct /\ pct <= HighAbove
    [] OTHER -> pct > HighAbove

\* C15: every churn risk shown is a probability between 0% and 100%, falls in
\* exactly one of the tiers low, medium, high, and every user of the High
\* Churn Risk table is above the high threshold of 70%.
C15_HighRiskAboveThreshold ==
  \A i \in DOMAIN ShownChurnRisk :
    LET pct == ParsePercent(ShownChurnRisk[i].risk)
    IN /\ 0 <= pct /\ pct <= 100
       /\ Cardinality({t \in {"low", "medium", "high"} : InTier(pct, t)}) = 1
       /\ InTier(pct, "high")
       /\ pct > 70

C15_Witness == Len(ShownChurnRisk) = 3

\* C20: every insight shown carries exactly one status out of ok, degraded,
\* unavailable.
C20_InsightsCarryStatus ==
  \A i \in DOMAIN ShownKpis :
    /\ "status" \in DOMAIN ShownKpis[i]
    /\ ShownKpis[i].status \in {"ok", "degraded", "unavailable"}

(***************************************************************************)
(* Retention cohorts                                                       *)
(***************************************************************************)
Min(a, b) == IF a <= b THEN a ELSE b

\* The cohort day of a user after one more activity event on day: the
\* earliest activity day so far.  <<>> is "no activity yet".
\* CohortDayLatest lets every event move the user to its own day.
CohortDayLatest(seen, day) == <<day>>
CohortDay(seen, day) ==
  IF seen = <<>> THEN <<day>> ELSE <<Min(seen[1], day)>>

\* One pass over the store in arrival order.
RECURSIVE FirstActivity(_, _, _)
FirstActivity(events, activity, seen) ==
  IF events = <<>> THEN seen
  ELSE LET e == Head(events)
       IN FirstActivity(Tail(events), activity,
            IF e.event_name \in activity
              THEN [seen EXCEPT ![e.user_id] = CohortDay(@, e.day)]
              ELSE seen)

\* The cohort table: pairs <<cohort day, user>>.
computeCohorts ==
  /\ "cohorts" \notin done
  /\ LET seen == FirstActivity(store, config.activity,
                               [u \in EngineUsers |-> <<>>])
     IN cohorts' = {<<seen[u][1], u>> :
                      u \in {v \in EngineUsers : seen[v] # <<>>}}
  /\ done' = done \cup {"cohorts"}
  /\ UNCHANGED <<ui, store, config, metrics, labels, km, ad>>

InitCohorts ==
  /\ UiInit
  /\ store \in Stores
  /\ config \in [activity : ActivitySets, window : {<<0, MaxDay>>},
                 cutoff : {0}]
  /\ metrics = <<>>
  /\ cohorts = {}
  /\ labels = {}
  /\ done = {}
  /\ km = [points |-> <<>>, centroids |-> <<>>, assign |-> <<>>, iter |-> 0,
          status |-> "idle"]
  /\ ad = [series |-> <<>>, pos |-> 0, flagged |-> {}]

SpecCohorts == InitCohorts /\ [][computeCohorts]_vars

\* The positions of the store that hold an activity event of user u.
ActivityPositions(u) ==
  {i \in DOMAIN store :
     store[i].user_id = u /\ store[i].event_name \in config.activity}

\* C13: every user with at least one activity event is in exactly one
\* cohort, the cohort of the day of the user's earliest activity; events on
\* later days neither move the user nor add a second cohort; a user without
\* activity is in no cohort.
C13_OneCohortAtFirstActivity ==
  "cohorts" \in done =>
    \A u \in EngineUsers :
      LET days == {store[i].day : i \in ActivityPositions(u)}
          mine == {c \in cohorts : c[2] = u}
      IN /\ days = {} => mine = {}
         /\ days # {} =>
              /\ Cardinality(mine) = 1
              /\ \A c \in mine : c[1] \in days /\ \A d \in days : c[1] <= d

\* A user with activity on two days, the later day arriving last, who is in
\* the cohort of the earlier day.
C13_Witness ==
  /\ "cohorts" \in done
  /\ \E u \in EngineUsers :
       \E i, j \in ActivityPositions(u) :
         i < j /\ store[i].day < store[j].day /\ <<store[i].day, u>> \in cohorts

(***************************************************************************)
(* Churn labels                                                            *)
(***************************************************************************)
\* Activity events a user needs before the cutoff to be labelled; days of
\* the forward horizon.
MinHistory == 1
Horizon == 1

ActivityOf(events, activity, u) ==
  SelectSeq(events, LAMBDA e : e.user_id = u /\ e.event_name \in activity)

\* The label of user u at the cutoff: <<>> is "excluded from training".
\* ChurnLabelDefault labels every user, whatever the history.
ChurnLabelDefault(events, activity, u, cutoff) ==
  LET mine == ActivityOf(events, activity, u)
      after == SelectSeq(mine, LAMBDA e :
                 cutoff <= e.day /\ e.day <= cutoff + Horizon)
  IN IF after = <<>> THEN <<"churned">> ELSE <<"not_churned">>
ChurnLabel(events, activity, u, cutoff) ==
  LET mine == ActivityOf(events, activity, u)
      before == SelectSeq(mine, LAMBDA e : e.day < cutoff)
      after == SelectSeq(mine, LAMBDA e :
                 cutoff <= e.day /\ e.day <= cutoff + Horizon)
  IN IF Len(before) < MinHistory THEN <<>>
     ELSE IF after = <<>> THEN <<"churned">> ELSE <<"not_churned">>

\* The training labels: pairs <<user, label>>.
buildLabels ==
  /\ "labels" \notin done
  /\ labels' =
       {<<u, ChurnLabel(store, config.activity, u, config.cutoff)[1]>> :
          u \in {v \in EngineUsers :
                   ChurnLabel(store, config.activity, v, config.cutoff) # <<>>}}
  /\ done' = done \cup {"labels"}
  /\ UNCHANGED <<ui, store, config, metrics, cohorts, km, ad>>

InitChurn ==
  /\ UiInit
  /\ store \in Stores
  /\ config \in [activity : ActivitySets, window : {<<0, MaxDay>>},
                 cutoff : Days]
  /\ metrics = <<>>
  /\ cohorts = {}
  /\ labels = {}
  /\ done = {}
  /\ km = [points |-> <<>>, centroids |-> <<>>, assign |-> <<>>, iter |-> 0,
          status |-> "idle"]
  /\ ad = [series |-> <<>>, pos |-> 0, flagged |-> {}]

SpecChurn == InitChurn /\ [][buildLabels]_vars

\* The activity events of u before the cutoff, and in the horizon.
HistoryPositions(u) ==
  {i \in ActivityPositions(u) : store[i].day < config.cutoff}
HorizonPositions(u) ==
  {i \in ActivityPositions(u) :
     config.cutoff <= store[i].day /\ store[i].day <= config.cutoff + Horizon}

\* C16: at a cutoff no user is labelled both churned and not-churned; a user
\* with insufficient history before the cutoff has no label at all; a
\* labelled user is churned exactly when inactive during the horizon.
C16_ChurnLabelsConsistent ==
  "labels" \in done =>
    \A u \in EngineUsers :
      /\ ~(<<u, "churned">> \in labels /\ <<u, "not_churned">> \in labels)
      /\ Cardinality(HistoryPositions(u)) < MinHistory =>
           \A l \in labels : l[1] # u
      /\ <<u, "churned">> \in labels => HorizonPositions(u) = {}
      /\ <<u, "not_churned">> \in labels => HorizonPositions(u) # {}

\* A user active only from the cutoff on, left without a label, next to a
\* labelled user.
C16_Witness ==
  /\ "labels" \in done
  /\ labels # {}
  /\ \E u \in EngineUsers :
       /\ HistoryPositions(u) = {}
       /\ HorizonPositions(u) # {}
       /\ \A l \in labels : l[1] # u

(***************************************************************************)
(* Segmentation: Lloyd's iteration on one feature                          *)
(***************************************************************************)
\* Greatest number of users clustered; greatest feature value.
MaxPoints == 4
MaxCoord == 3

\* The configured number of clusters and the iteration cap.
NumClusters == 2
MaxIterations == 2

FeatureVectors == UNION {[1..n -> 0..MaxCoord] : n \in NumClusters..MaxPoints}

Abs(x) == IF x < 0 THEN -x ELSE x

\* A centroid is <<sum, count>>, the mean sum / count.  Closer(p, c, d):
\* point p is strictly nearer to centroid c than to centroid d.
Closer(p, c, d) ==
  Abs(p * c[2] - c[1]) * d[2] < Abs(p * d[2] - d[1]) * c[2]

\* The nearest centroid, the lowest index among equally near ones.
Nearest(p, cents) ==
  CHOOSE k \in DOMAIN cents :
    \A j \in DOMAIN cents :
      /\ j < k => Closer(p, cents[k], cents[j])
      /\ j > k => ~Closer(p, cents[j], cents[k])

Assign(points, cents) == [i \in DOMAIN points |-> Nearest(points[i], cents)]

RECURSIVE SumCluster(_, _, _, _)
SumCluster(points, assign, k, n) ==
  IF n = 0 THEN 0
  ELSE (IF assign[n] = k THEN points[n] ELSE 0)
       + SumCluster(points, assign, k, n - 1)

\* Centroids as assignment means; an empty cluster keeps its centroid.
Means(points, assign, old) ==
  [k \in DOMAIN old |->
     LET members == {i \in DOMAIN points : assign[i] = k}
     IN IF members = {} THEN old[k]
        ELSE <<SumCluster(points, assign, k, Len(points)),
               Cardinality(members)>>]

\* Seeded initialization: the seed fixes the points the centroids start at,
\* here the first NumClusters ones.
kmeansStart ==
  /\ km.status = "idle"
  /\ Len(km.points) >= NumClusters
  /\ km' = [km EXCEPT !.centroids = [k \in 1..NumClusters |-> <<km.points[k], 1>>],
                      !.assign = <<>>,
                      !.iter = 0,
                      !.status = "running"]
  /\ UNCHANGED <<ui, store, config, metrics, cohorts, labels, done, ad>>

\* One iteration: assign, stop when nothing changed, recompute the
\* centroids, stop at the cap.  kmeansIterateUncapped has no cap.
kmeansIterateUncapped ==
  /\ km.status = "running"
  /\ LET new == Assign(km.points, km.centroids)
         n == km.iter + 1
     IN km' = IF new = km.assign
                THEN [km EXCEPT !.iter = n, !.status = "converged"]
                ELSE [km EXCEPT !.assign = new,
                                !.centroids = Means(km.points, new, @),
                                !.iter = n,
                                !.status = "running"]
  /\ UNCHANGED <<ui, store, config, metrics, cohorts, labels, done, ad>>
kmeansIterate ==
  /\ km.status = "running"
  /\ LET new == Assign(km.points, km.centroids)
         n == km.iter + 1
     IN km' = IF new = km.assign
                THEN [km EXCEPT !.iter = n, !.status = "converged"]
                ELSE [km EXCEPT !.assign = new,
                                !.centroids = Means(km.points, new, @),
                                !.iter = n,
                                !.status = IF n >= MaxIterations
                                             THEN "capped" ELSE "running"]
  /\ UNCHANGED <<ui, store, config, metrics, cohorts, labels, done, ad>>

InitKMeans ==
  /\ UiInit
  /\ store = <<>>
  /\ config = [activity |-> {}, window |-> <<0, 0>>, cutoff |-> 0]
  /\ metrics = <<>>
  /\ cohorts = {}
  /\ labels = {}
  /\ done = {}
  /\ km \in [points : FeatureVectors, centroids : {<<>>}, assign : {<<>>},
             iter : {0}, status : {"idle"}]
  /\ ad = [series |-> <<>>, pos |-> 0, flagged |-> {}]

NextKMeans == kmeansStart \/ kmeansIterate

\* The loop runs on once started.
SpecKMeans ==
  InitKMeans /\ [][NextKMeans]_vars /\ WF_vars(NextKMeans)

\* C18: the clustering loop terminates on every input: it stops when an
\* iteration leaves all assignments unchanged or when the iteration cap is
\* reached, and never performs more iterations than the cap.
C18_ClusteringTerminates ==
  /\ [](km.iter <= MaxIterations)
  /\ [](km.status = "converged" =>
          Assign(km.points, km.centroids) = km.assign)
  /\ [](km.status = "capped" => km.iter = MaxIterations)
  /\ <>(km.status \in {"converged", "capped"})

\* An input stopped by the cap: its last iteration still changed an
\* assignment.
C18_Witness ==
  /\ km.status = "capped"
  /\ km.iter = MaxIterations

(***************************************************************************)
(* Anomaly detection on a metric series                                    *)
(***************************************************************************)
\* Greatest length of a series; greatest metric value.
MaxSeries == 4
MaxValue == 2

\* The configured rolling window and the threshold k of the flag rule.
WindowSize == 2
Threshold == 1

MetricSeries == UNION {[1..n -> 0..MaxValue] : n \in 0..MaxSeries}

RECURSIVE SumSeq(_, _, _)
SumSeq(f, lo, hi) == IF lo > hi THEN 0 ELSE f[lo] + SumSeq(f, lo + 1, hi)

\* |value - mean| > k * stddev against the baseline series[lo..pos-1], the
\* point itself excluded; both sides squared and scaled by the square of the
\* baseline length n: (n*value - sum)^2 > k^2 * (n*sumsq - sum^2).
Deviates(series, lo, pos) ==
  LET n == pos - lo
      sum == SumSeq(series, lo, pos - 1)
      sumsq == SumSeq([i \in DOMAIN series |-> series[i] * series[i]],
                      lo, pos - 1)
      dev == n * series[pos] - sum
  IN dev * dev > Threshold * Threshold * (n * sumsq - sum * sum)

\* A point is tested once a full window precedes it.  HasBaselinePartial
\* tests it against whatever precedes it.
HasBaselinePartial(pos) == pos > 1
HasBaseline(pos) == pos > WindowSize

Flagged(series) ==
  {pos \in DOMAIN series :
     /\ HasBaseline(pos)
     /\ Deviates(series,
                 IF pos > WindowSize THEN pos - WindowSize ELSE 1, pos)}

detectAnomalies ==
  /\ "anomalies" \notin done
  /\ ad' = [ad EXCEPT !.pos = Len(ad.series), !.flagged = Flagged(ad.series)]
  /\ done' = done \cup {"anomalies"}
  /\ UNCHANGED <<ui, store, config, metrics, cohorts, labels, km>>

InitAnomaly ==
  /\ UiInit
  /\ store = <<>>
  /\ config = [activity |-> {}, window |-> <<0, 0>>, cutoff |-> 0]
  /\ metrics = <<>>
  /\ cohorts = {}
  /\ labels = {}
  /\ done = {}
  /\ km = [points |-> <<>>, centroids |-> <<>>, assign |-> <<>>, iter |-> 0,
          status |-> "idle"]
  /\ ad \in [series : MetricSeries, pos : {0}, flagged : {{}}]

SpecAnomaly == InitAnomaly /\ [][detectAnomalies]_vars

\* C19: no point with fewer than WindowSize preceding points is flagged,
\* whatever its value.
C19_NoFlagInWarmUp ==
  \A pos \in ad.flagged : pos - 1 >= WindowSize

\* A scanned series with a flagged point, whose second point differs from
\* the first (it deviates from the one-point baseline) and is not flagged.
C19_Witness ==
  /\ "anomalies" \in done
  /\ ad.flagged # {}
  /\ Len(ad.series) > WindowSize
  /\ ad.series[2] # ad.series[1]
  /\ 2 \notin ad.flagged

(***************************************************************************)
(* ChatbotPage                                                             *)
(***************************************************************************)
\* Greatest number of messages one behaviour sends.
MaxSent == 2

\* setTimeout(..., 2000) in handleSendMessage.
ReplyMs == 2000
ReplyTicks == ReplyMs \div TickMs

\* A text is a sequence of pieces; a piece is a character or, in a
\* suggestion and a reply, a run of characters without blanks at its ends.
Whitespace == {" "}

\* String.prototype.trim
RECURSIVE TrimStart(_)
TrimStart(text) ==
  IF text # <<>> /\ Head(text) \in Whitespace
    THEN TrimStart(Tail(text)) ELSE text
RECURSIVE TrimEnd(_)
TrimEnd(text) ==
  IF text # <<>> /\ text[Len(text)] \in Whitespace
    THEN TrimEnd(SubSeq(text, 1, Len(text) - 1)) ELSE text
Trim(text) == TrimEnd(TrimStart(text))

quickSuggestions ==
  <<<<"Show revenue trends for whale players">>,
    <<"Why did retention drop last month?">>,
    <<"Suggest offers for casual spenders">>,
    <<"Which players are likely to churn?">>,
    <<"How can I improve DAU for mobile users?">>>>

\* Texts the user types into the input; the suggestion the user clicks.
Typed == {<<>>, <<" ">>, <<" ", "b">>}
Clicked == {quickSuggestions[1]}

\* The AI message of the reply timer: it quotes userMessage.
ReplyTo(userMessage) ==
  [type |-> "ai",
   content |-> <<"Based on your data analysis, here are insights about \"">>
               \o userMessage
               \o <<"\": This is a simulated response.">>]

\* onChange of the input.
setInputMessage(text) ==
  /\ currentPage = "chatbot"
  /\ inputMessage' = text
  /\ UNCHANGED <<uploadState, currentPage, activeTab, timers, nRuns, failed,
                 filters, messages, isTyping, replies, nSent, backend>>

handleSuggestionClick(suggestion) ==
  /\ currentPage = "chatbot"
  /\ inputMessage' = suggestion
  /\ UNCHANGED <<uploadState, currentPage, activeTab, timers, nRuns, failed,
                 filters, messages, isTyping, replies, nSent, backend>>

\* handleSendMessage: nothing for a blank input; otherwise the message is
\* appended, the input cleared, isTyping set and the reply timer started.
handleSendMessage ==
  /\ currentPage = "chatbot"
  /\ IF Trim(inputMessage) = <<>>
       THEN UNCHANGED <<messages, inputMessage, isTyping, replies, nSent>>
       ELSE /\ nSent < MaxSent
            /\ inputMessage' = <<>>
            /\ messages' = Append(messages,
                                  [type |-> "user", content |-> inputMessage])
            /\ isTyping' = TRUE
            /\ replies' = replies \cup
                 {[id |-> nSent + 1, userMessage |-> inputMessage,
                   left |-> ReplyTicks, live |-> TRUE]}
            /\ nSent' = nSent + 1
  /\ UNCHANGED <<uploadState, currentPage, activeTab, timers, nRuns, failed,
                 filters, backend>>

\* A click on Send: the button is disabled for a blank input and while
\* isTyping.
sendClick ==
  /\ Trim(inputMessage) # <<>>
  /\ ~isTyping
  /\ handleSendMessage

\* Enter in the input: onKeyPress calls handleSendMessage.
enterKey == handleSendMessage

\* The callback of the reply timer.  The timers have one delay, so they run
\* in the order they were set; a callback of an unmounted ChatbotPage
\* changes nothing.  replyTimeoutAnyOrder runs expired timers in any order.
replyTimeoutAnyOrder(r) ==
  /\ r \in replies
  /\ r.left = 0
  /\ replies' = replies \ {r}
  /\ IF r.live
       THEN /\ isTyping' = FALSE
            /\ messages' = Append(messages, ReplyTo(r.userMessage))
       ELSE UNCHANGED <<messages, isTyping>>
  /\ UNCHANGED <<uploadState, currentPage, activeTab, timers, nRuns, failed,
                 filters, inputMessage, nSent, backend>>
replyTimeout(r) ==
  /\ r \in replies
  /\ r.left = 0
  /\ \A o \in replies : o.left = 0 => o.id >= r.id
  /\ replies' = replies \ {r}
  /\ IF r.live
       THEN /\ isTyping' = FALSE
            /\ messages' = Append(messages, ReplyTo(r.userMessage))
       ELSE UNCHANGED <<messages, isTyping>>
  /\ UNCHANGED <<uploadState, currentPage, activeTab, timers, nRuns, failed,
                 filters, inputMessage, nSent, backend>>

ReplyFires == \E r \in replies : replyTimeout(r)

\* The session once s.csv has been analysed and the navigation timer has
\* run: the dashboard is open and no upload timer is left.
InitChat ==
  /\ uploadState \in
       {[file |-> c, uploading |-> FALSE, uploaded |-> TRUE, error |-> Null] :
          c \in {x \in Chosen \ {NoFile} : x[1].data = ScenarioData}}
  /\ currentPage = "overview"
  /\ activeTab = Unmounted
  /\ timers = {}
  /\ nRuns = 1
  /\ failed = {}
  /\ dateRange = "30d"
  /\ deviceFilter = "all"
  /\ segmentFilter = "all"
  /\ messages = <<>>
  /\ inputMessage = <<>>
  /\ isTyping = FALSE
  /\ replies = {}
  /\ nSent = 0
  /\ BackendIdle

NextChat ==
  \/ \E p \in DashboardPages : setCurrentPage(p)
  \/ \E text \in Typed : setInputMessage(text)
  \/ \E suggestion \in Clicked : handleSuggestionClick(suggestion)
  \/ sendClick
  \/ enterKey
  \/ \E r \in replies : replyTimeout(r)
  \/ Tick

\* Time passes and expired reply timers run.
SpecChat ==
  InitChat /\ [][NextChat]_vars /\ WF_vars(Tick) /\ WF_vars(ReplyFires)

(***************************************************************************)
(* Claims about the filters, the upload flow and the chatbot               *)
(***************************************************************************)
\* The device_type enum of an Event and the segment labels of the design.
DeviceTypes == {"ios", "android", "web", "unknown"}
SegmentLabels == {"whale", "dolphin", "minnow", "free"}

\* C21: the filter is a tuple of date range, device type and segment; the
\* device type, when one is selected, is a value of the device_type enum
\* and the segment, when one is selected, is a segment label ("all" selects
\* none).
C21_FilterWellFormed ==
  /\ dateRange \in DateRanges
  /\ deviceFilter # "all" => deviceFilter \in DeviceTypes
  /\ segmentFilter # "all" => segmentFilter \in SegmentLabels

\* C22: whenever uploaded is true, a file is selected and no error is shown.
C22_UploadedHasFile ==
  uploadState.uploaded =>
    (uploadState.file # NoFile /\ uploadState.error = Null)

\* C23: uploading is true exactly when a run of handleUpload has not yet
\* finished its wait.
C23_UploadingIffRunPending ==
  uploadState.uploading <=> (\E t \in timers : t.kind = "wait")

\* C24: once a dashboard page is shown, currentPage changes only by a click
\* on a navigation button, never by the callback of a timer.
C24_PageChangesOnlyByClick ==
  [][(currentPage # "upload" /\ currentPage' # currentPage)
       => timers' = timers]_vars

\* C25: currentPage starts as 'upload' and, once it has another value,
\* never becomes 'upload' again; from then on uploadState.file and
\* uploadState.uploaded never change.
C25_NoWayBackToUpload ==
  /\ currentPage = "upload"
  /\ [][currentPage # "upload" =>
          /\ currentPage' # "upload"
          /\ uploadState'.file = uploadState.file
          /\ uploadState'.uploaded = uploadState.uploaded]_vars

\* The user has navigated on the dashboard while a run is still pending.
C25_Witness ==
  /\ currentPage = "reports"
  /\ \E t \in timers : t.kind = "wait"

\* C26: on the chatbot page isTyping is true exactly while an AI reply is
\* pending, and at most one AI reply is pending at any time.
C26_TypingIffOneReplyPending ==
  currentPage = "chatbot" =>
    LET pending == {r \in replies : r.live}
    IN /\ isTyping <=> pending # {}
       /\ Cardinality(pending) <= 1

\* The texts of the user messages shown, in order; the texts the AI replies
\* after the greeting quote, in order.
UserTexts ==
  LET sent == SelectSeq(messages, LAMBDA m : m.type = "user")
  IN [i \in DOMAIN sent |-> sent[i].content]
Quoted(content) == SubSeq(content, 2, Len(content) - 1)
AiTexts ==
  LET said == SelectSeq(SubSeq(messages, 2, Len(messages)),
                        LAMBDA m : m.type = "ai")
  IN [i \in DOMAIN said |-> Quoted(said[i].content)]
IsPrefix(a, b) == Len(a) <= Len(b) /\ SubSeq(b, 1, Len(a)) = a

\* C27: while the chatbot page stays open the first message is the
\* greeting; the list only grows; a send appends the input exactly once as
\* a user message; a blank input adds no message and starts no reply; the
\* AI replies quote the user messages one for one in the order sent, none
\* before its message; and every message sent is eventually replied to.
C27_EveryMessageRepliedOnce ==
  /\ [](currentPage = "chatbot" =>
          /\ messages[1] = Greeting
          /\ IsPrefix(AiTexts, UserTexts)
          /\ \A n \in 1..Len(messages) :
               Len(SelectSeq(SubSeq(messages, 2, n), LAMBDA m : m.type = "ai"))
                 <= Len(SelectSeq(SubSeq(messages, 2, n),
                                  LAMBDA m : m.type = "user")))
  /\ [][(currentPage = "chatbot" /\ currentPage' = "chatbot") =>
          /\ IsPrefix(messages, messages')
          /\ nSent' # nSent =>
               /\ Trim(inputMessage) # <<>>
               /\ messages' = Append(messages, [type |-> "user",
                                                content |-> inputMessage])
          /\ Trim(inputMessage) = <<>> =>
               (UserTexts' = UserTexts /\ nSent' = nSent)]_vars
  /\ (currentPage = "chatbot" /\ Len(UserTexts) > Len(AiTexts))
       ~> (Len(UserTexts) = Len(AiTexts))

\* Two different messages sent while the first reply was pending, both
\* replied to.
C27_Witness ==
  /\ currentPage = "chatbot"
  /\ Len(messages) = 5
  /\ messages[2].type = "user" /\ messages[3].type = "user"
  /\ messages[2].content # messages[3].content
  /\ messages[4] = ReplyTo(messages[2].content)
  /\ messages[5] = ReplyTo(messages[3].content)

====
